---- MODULE Spec2Model ----
(***************************************************************************)
(* Model of the chatbot's reasoning-compatibility layer.                   *)
(*                                                                         *)
(*  - the deployed request path: src/app/api/chat/route.ts                 *)
(*    (hasModelProperty, filterIncompatibleReasoning, POST) driven by the  *)
(*    client of src/app/_components/Chat.tsx (useChat, maxSteps 10);       *)
(*  - the schema translation of the "Immediate Schema Mapping Fix"         *)
(*    (getOriginalProvider, translateReasoningPart, extractTextFromDetails,*)
(*    translateMessage);                                                   *)
(*  - the views of Chat.tsx: the Message component (badge and parts), the  *)
(*    Reasoning panel (its text and its expanded state) and the scroll     *)
(*    container kept at the bottom by useAutoScroll (util.ts);             *)
(*  - the resolution of a model identifier against modelDefs (models.ts):  *)
(*    the language model POST constructs and the provider options it and   *)
(*    getProviderOptions build.                                            *)
(*                                                                         *)
(* JavaScript values are modelled as follows.  A string is a TLA+ string;  *)
(* `undefined` is the string Undef; an object is a record that carries a   *)
(* tag ("object", "null", "undefined", "notarray", "array") next to its    *)
(* fields, so that optional chaining (?.) and the falsy test of || can be  *)
(* written out as the language evaluates them.  An expression that throws  *)
(* a TypeError yields the value TypeError, which propagates to the caller. *)
(***************************************************************************)
EXTENDS Integers, Sequences, FiniteSets, TLC

VARIABLES
    \* the conversation (Chat.tsx + route.ts)
    messages,   \* useChat's message list
    model,      \* the model selected in the <select>
    status,     \* useChat's status
    req,        \* the request in flight: what POST resolved and forwarded
    error,      \* useChat's error: the message of the failure, Undef for none
    cut,        \* the last response cut short: how, and which message it was building
    overlapped, \* whether a call was started while another was in flight
    away,       \* the reasoning parts in the history when another provider was called
    \* a Reasoning panel (Chat.tsx)
    panel,      \* its state, its props and the last event on it
    \* the scroll container of the message list (util.ts)
    scroller,   \* the element, the refs of useAutoScroll and the last event on it
    \* a single reasoning part put through the codec
    part,       \* the reasoning part
    src,        \* the provider that produced it
    canon,      \* a canonical trace (content, signature)
    \* a history put through the translator
    hist,       \* the message history of a request
    \* shared by the two function specifications
    target,     \* the provider about to be called
    out,        \* the result of the operation applied
    pc          \* which operation has been applied

vars == <<messages, model, status, req, error, cut, overlapped, away, panel, scroller,
          part, src, canon, hist, target, out, pc>>

-----------------------------------------------------------------------------
(* Bounds of the model *)

MaxDetails == 2     \* longest details array of a drawn reasoning part
MaxHist == 2        \* longest drawn history
MaxTurns == 2       \* most user messages submitted in a conversation
MaxParts == 4       \* most parts streamed into the assistant messages of a conversation
MaxMessageParts == 8    \* most parts of the message a Reasoning panel belongs to
MaxClicks == 5          \* most clicks on the header of a Reasoning panel
MaxScrollHeight == 45   \* largest scrollHeight of the scroll container, in px

-----------------------------------------------------------------------------
(* JavaScript values *)

Undef == "<undefined>"
TypeError == "<TypeError>"

\* !v for a string-or-undefined value
Falsy(v) == v = Undef \/ v = ""

\* a || b
Or(a, b) == IF Falsy(a) THEN b ELSE a

\* Array.prototype.join: undefined elements are joined as the empty string
RECURSIVE Join(_, _)
Join(strs, sep) ==
    IF Len(strs) = 0 THEN ""
    ELSE IF Len(strs) = 1 THEN (IF strs[1] = Undef THEN "" ELSE strs[1])
    ELSE (IF strs[1] = Undef THEN "" ELSE strs[1]) \o sep \o Join(Tail(strs), sep)

\* s.split(':')[0]: the text before the first ':' (the whole string if none)
RECURSIVE SplitHead(_)
SplitHead(s) ==
    IF Len(s) = 0 THEN ""
    ELSE IF SubSeq(s, 1, 1) = ":" THEN ""
    ELSE SubSeq(s, 1, 1) \o SplitHead(SubSeq(s, 2, Len(s)))

\* s.split(':')[1]: the text between the first and the second ':' (undefined if no ':')
RECURSIVE SplitSecond(_)
SplitSecond(s) ==
    IF Len(s) = 0 THEN Undef
    ELSE IF SubSeq(s, 1, 1) = ":" THEN SplitHead(SubSeq(s, 2, Len(s)))
    ELSE SplitSecond(SubSeq(s, 2, Len(s)))

-----------------------------------------------------------------------------
(* Provider capability registry: models.ts *)

Providers == {"openai", "anthropic"}
ModelClasses == {"default", "smart"}

\* modelDefs.  A constructor is written as the name of the function it refers to.
modelDefs ==
    [openai |->
        [constructor |-> "openai",
         reasoningOptions |->
            [reasoningEffort |-> "high", reasoningSummary |-> "detailed",
             parallelToolCalls |-> TRUE],
         models |->
            [default |-> [name |-> "gpt-4o", reasoning |-> FALSE],
             smart   |-> [name |-> "o3", reasoning |-> TRUE,
                          constructor |-> "openai.responses"]]],
     anthropic |->
        [constructor |-> "anthropic",
         reasoningOptions |->
            [thinking |-> [type |-> "enabled", budgetTokens |-> 12000]],
         models |->
            [default |-> [name |-> "claude-3-5-sonnet-20240620", reasoning |-> FALSE],
             smart   |-> [name |-> "claude-3-7-sonnet-20250219", reasoning |-> TRUE]]]]

\* type Model = `${Provider}:${ModelClass}`
Models == {p \o ":" \o c : p \in Providers, c \in ModelClasses}

-----------------------------------------------------------------------------
(* Resolving a model identifier: route.ts and models.ts *)

\* the properties every object literal inherits from Object.prototype (those the
\* drawn identifiers name)
ObjectPrototype == {"constructor", "toString", "valueOf", "hasOwnProperty"}

\* what o[key] is for an object literal o: an own property, a function inherited
\* from Object.prototype, or undefined
Lookup(o, key) ==
    IF key \in DOMAIN o THEN "own"
    ELSE IF key \in ObjectPrototype THEN "inherited"
    ELSE "undefined"

\* the name property of an inherited function
FunctionName(key) == IF key = "constructor" THEN "Object" ELSE key

\* a language model: the function that constructed it and the name it was given
LanguageModel(factory, name) == [factory |-> factory, name |-> name]
NoLanguageModel == LanguageModel(Undef, Undef)

ThrownResolution == [thrown |-> TRUE, languageModel |-> NoLanguageModel]
Resolved(languageModel) == [thrown |-> FALSE, languageModel |-> languageModel]

\* the function modelConfig.factory || providerConfig.factory refers to, Undef for
\* undefined: `own` tells whether modelConfig is an entry of models (an inherited
\* function has no factory property)
Factory(providerConfig, modelClass, own) ==
    IF own /\ "factory" \in DOMAIN providerConfig.models[modelClass]
    THEN providerConfig.models[modelClass].factory
    ELSE IF "factory" \in DOMAIN providerConfig
    THEN providerConfig.factory
    ELSE Undef

ResolveModelOptionalCall(m) ==
    LET provider == SplitHead(m)
        modelClass == SplitSecond(m)
    IN IF Lookup(modelDefs, provider) # "own" THEN ThrownResolution
       ELSE LET providerConfig == modelDefs[provider]
                kind == Lookup(providerConfig.models, modelClass)
                modelName == IF kind = "own"
                             THEN providerConfig.models[modelClass].name
                             ELSE FunctionName(modelClass)
                factory == Factory(providerConfig, modelClass, kind = "own")
            IN IF kind = "undefined" THEN ThrownResolution
               ELSE IF factory = Undef THEN Resolved(NoLanguageModel)
               ELSE Resolved(LanguageModel(factory, modelName))

\* POST, from model.split(':') to factory(modelName).  Reading providerConfig.models
\* throws when modelDefs[provider] is undefined; when it is an inherited function
\* its models is undefined and reading models[modelClass] throws; reading
\* modelConfig.name throws when models[modelClass] is undefined; calling factory
\* throws when it is undefined
ResolveModel(m) ==
    LET provider == SplitHead(m)
        modelClass == SplitSecond(m)
    IN IF Lookup(modelDefs, provider) # "own" THEN ThrownResolution
       ELSE LET providerConfig == modelDefs[provider]
                kind == Lookup(providerConfig.models, modelClass)
                modelName == IF kind = "own"
                             THEN providerConfig.models[modelClass].name
                             ELSE FunctionName(modelClass)
                factory == Factory(providerConfig, modelClass, kind = "own")
            IN IF kind = "undefined" THEN ThrownResolution
               ELSE IF factory = Undef THEN ThrownResolution
               ELSE Resolved(LanguageModel(factory, modelName))

\* provider options: a thrown error, undefined, or an object given as the set of
\* its <<key, value>> entries
ThrownOptions == [kind |-> "thrown", entries |-> {}]
UndefinedOptions == [kind |-> "undefined", entries |-> {}]
ObjectOptions(entries) == [kind |-> "object", entries |-> entries]

RouteProviderOptionsAlways(m) ==
    LET provider == SplitHead(m)
        modelClass == SplitSecond(m)
    IN IF Lookup(modelDefs, provider) # "own" THEN ThrownOptions
       ELSE LET providerConfig == modelDefs[provider]
                kind == Lookup(providerConfig.models, modelClass)
            IN IF kind = "undefined" THEN ThrownOptions
               ELSE ObjectOptions({<<provider, providerConfig.reasoningOptions>>})

\* POST: the providerOptions it builds from the configuration it looked up:
\* modelConfig.reasoning ? {[provider]: providerConfig.reasoningOptions} : {}
\* (an inherited function has no reasoning property)
RouteProviderOptions(m) ==
    LET provider == SplitHead(m)
        modelClass == SplitSecond(m)
    IN IF Lookup(modelDefs, provider) # "own" THEN ThrownOptions
       ELSE LET providerConfig == modelDefs[provider]
                kind == Lookup(providerConfig.models, modelClass)
            IN IF kind = "undefined" THEN ThrownOptions
               ELSE IF kind = "own" /\ providerConfig.models[modelClass].reasoning
               THEN ObjectOptions({<<provider, providerConfig.reasoningOptions>>})
               ELSE ObjectOptions({})

\* models.ts: getProviderOptions returns the same object for a reasoning model and
\* undefined otherwise
getProviderOptions(m) ==
    LET provider == SplitHead(m)
        modelClass == SplitSecond(m)
    IN IF Lookup(modelDefs, provider) # "own" THEN ThrownOptions
       ELSE LET providerConfig == modelDefs[provider]
                kind == Lookup(providerConfig.models, modelClass)
            IN IF kind = "undefined" THEN ThrownOptions
               ELSE IF kind = "own" /\ providerConfig.models[modelClass].reasoning
               THEN ObjectOptions({<<provider, providerConfig.reasoningOptions>>})
               ELSE UndefinedOptions

-----------------------------------------------------------------------------
(* Message parts *)

\* details: undefined, a value that is no array, or an array of details
NoDetails == [tag |-> "undefined", items |-> <<>>]
NotArrayDetails == [tag |-> "notarray", items |-> <<>>]
ArrayDetails(items) == [tag |-> "array", items |-> items]

\* one element of details
NullDetail == [tag |-> "null", type |-> Undef, text |-> Undef, data |-> Undef, signature |-> Undef]
Detail(type, text, data, signature) ==
    [tag |-> "object", type |-> type, text |-> text, data |-> data, signature |-> signature]
TextDetail(text, signature) == Detail("text", text, Undef, signature)
RedactedDetail(data) == Detail("redacted", Undef, data, Undef)
EmptyDetail == Detail(Undef, Undef, Undef, Undef)

\* thinking: undefined or {signature, content}
NoThinking == [tag |-> "undefined", signature |-> Undef, content |-> Undef]
Thinking(signature, content) == [tag |-> "object", signature |-> signature, content |-> content]

\* A part.  `by` is not a field of the program: it records which provider's model
\* generated the part (Undef for parts no model generated).
Part(type, text, reasoning, details, thinking, by) ==
    [type |-> type, text |-> text, reasoning |-> reasoning, details |-> details,
     thinking |-> thinking, by |-> by]

TextPart(text) == Part("text", text, Undef, NoDetails, NoThinking, Undef)
ToolPart(name) == Part("tool-invocation", name, Undef, NoDetails, NoThinking, Undef)
StepStart == Part("step-start", Undef, Undef, NoDetails, NoThinking, Undef)
FilePart(name) == Part("file", name, Undef, NoDetails, NoThinking, Undef)
SourcePart(name) == Part("source", name, Undef, NoDetails, NoThinking, Undef)

\* OpenAI reasoning format: {type, reasoning, details: [{type: "text", text, signature?}]}
DetailPart(reasoning, details, by) == Part("reasoning", Undef, reasoning, details, NoThinking, by)
\* Anthropic reasoning format: {type, thinking: {signature, content}}
ThinkingPart(thinking, by) == Part("reasoning", Undef, Undef, NoDetails, thinking, by)

\* the value a throwing call leaves in place of a part
ThrownPart == Part(TypeError, Undef, Undef, NoDetails, NoThinking, Undef)

-----------------------------------------------------------------------------
(* Messages *)

\* an annotation: null, or an object whose model is a string or missing
NullAnnotation == [tag |-> "null", model |-> Undef]
Annotation(m) == [tag |-> "object", model |-> m]

\* message.annotations is a sequence; a message without the field has <<>>,
\* which is what `message.annotations || []` makes of it
Message(id, role, parts, annotations) ==
    [id |-> id, role |-> role, parts |-> parts, annotations |-> annotations]

\* what a throwing translation leaves in place of a message
ThrownMessage == Message(TypeError, TypeError, <<>>, <<>>)

-----------------------------------------------------------------------------
(* route.ts: the deployed filter *)

\* annotation !== null && typeof annotation === 'object' && 'model' in annotation
\*   && typeof annotation.model === 'string'
hasModelProperty(annotation) ==
    annotation.tag = "object" /\ annotation.model # Undef

\* annotations.find(hasModelProperty): the first match, or NullAnnotation for undefined
RECURSIVE FindModelAnnotation(_)
FindModelAnnotation(annotations) ==
    IF Len(annotations) = 0 THEN NullAnnotation
    ELSE IF hasModelProperty(annotations[1]) THEN annotations[1]
    ELSE FindModelAnnotation(Tail(annotations))

\* the predicate of message.parts.filter in filterIncompatibleReasoning
KeepPart(message, p, targetProvider) ==
    IF p.type = "reasoning"
    THEN LET modelAnnotation == FindModelAnnotation(message.annotations)
         IN IF hasModelProperty(modelAnnotation)
            THEN SplitHead(modelAnnotation.model) = targetProvider
            ELSE FALSE
    ELSE TRUE

KeepPartInverted(message, p, targetProvider) ==
    IF p.type = "reasoning"
    THEN LET modelAnnotation == FindModelAnnotation(message.annotations)
         IN IF hasModelProperty(modelAnnotation)
            THEN SplitHead(modelAnnotation.model) # targetProvider
            ELSE FALSE
    ELSE TRUE

KeepPartTextOnly(message, p, targetProvider) ==
    p.type = "text"

\* the callback of messages.map in filterIncompatibleReasoning
FilterMessage(message, targetProvider) ==
    IF message.role = "user"
    THEN message
    ELSE [message EXCEPT
            !.parts = SelectSeq(message.parts,
                                LAMBDA p : KeepPart(message, p, targetProvider))]

FilterMessageInverted(message, targetProvider) ==
    IF message.role = "user"
    THEN message
    ELSE [message EXCEPT
            !.parts = SelectSeq(message.parts,
                                LAMBDA p : KeepPartInverted(message, p, targetProvider))]

FilterMessageTextOnly(message, targetProvider) ==
    IF message.role = "user"
    THEN message
    ELSE [message EXCEPT
            !.parts = SelectSeq(message.parts,
                                LAMBDA p : KeepPartTextOnly(message, p, targetProvider))]

filterIncompatibleReasoningInverted(msgs, targetProvider) ==
    [i \in 1..Len(msgs) |-> FilterMessageInverted(msgs[i], targetProvider)]

filterIncompatibleReasoningTextOnly(msgs, targetProvider) ==
    [i \in 1..Len(msgs) |-> FilterMessageTextOnly(msgs[i], targetProvider)]

filterIncompatibleReasoning(msgs, targetProvider) ==
    [i \in 1..Len(msgs) |-> FilterMessage(msgs[i], targetProvider)]

filterIncompatibleReasoningInPlace(msgs, targetProvider) ==
    filterIncompatibleReasoning(msgs, targetProvider)

\* the argument after a call of filterIncompatibleReasoning: map, filter and the
\* object spread build new arrays and objects, and no statement assigns to
\* messages, to a message or to a part
filterIncompatibleReasoningArgument(msgs, targetProvider) == msgs

-----------------------------------------------------------------------------
(* The schema translation *)

\* getOriginalProvider: the provider of the first model annotation, Undef for null
getOriginalProvider(message) ==
    LET modelAnnotation == FindModelAnnotation(message.annotations)
    IN IF hasModelProperty(modelAnnotation)
       THEN SplitHead(modelAnnotation.model)
       ELSE Undef

\* detail.text || detail.data || "", for a detail that is an object
DetailText(detail) == Or(Or(detail.text, detail.data), "")

\* extractTextFromDetails: "" for no details; reading .map of a value that is no
\* array, or .text of a null element, throws
extractTextFromDetails(details) ==
    IF details.tag = "undefined" THEN ""
    ELSE IF details.tag = "notarray" THEN TypeError
    ELSE IF \E i \in 1..Len(details.items) : details.items[i].tag = "null" THEN TypeError
    ELSE Join([i \in 1..Len(details.items) |-> DetailText(details.items[i])], "\n")

\* part.details?.[0]?.signature
FirstSignature(details) ==
    IF details.tag = "array" /\ Len(details.items) > 0 /\ details.items[1].tag = "object"
    THEN details.items[1].signature
    ELSE Undef

\* part.thinking?.content and part.thinking?.signature
ThinkingContent(thinking) == IF thinking.tag = "object" THEN thinking.content ELSE Undef
ThinkingSignature(thinking) == IF thinking.tag = "object" THEN thinking.signature ELSE Undef

\* part.reasoning || extractTextFromDetails(part.details)
DetailContent(p) ==
    IF Falsy(p.reasoning) THEN extractTextFromDetails(p.details) ELSE p.reasoning

translateReasoningPartNoSentinel(p, targetProvider) ==
    IF p.type # "reasoning" THEN p
    ELSE IF targetProvider = "anthropic"
    THEN LET signature == FirstSignature(p.details)
             content == DetailContent(p)
         IN IF content = TypeError THEN ThrownPart
            ELSE Part("reasoning", Undef, Undef, NoDetails, Thinking(signature, content), p.by)
    ELSE IF targetProvider = "openai"
    THEN LET content == Or(ThinkingContent(p.thinking), "")
             signature == ThinkingSignature(p.thinking)
         IN Part("reasoning", Undef, content,
                 ArrayDetails(<<TextDetail(content, signature)>>), NoThinking, p.by)
    ELSE p

translateReasoningPart(p, targetProvider) ==
    IF p.type # "reasoning" THEN p
    ELSE IF targetProvider = "anthropic"
    THEN LET signature == Or(FirstSignature(p.details), "translated-from-openai")
             content == DetailContent(p)
         IN IF content = TypeError THEN ThrownPart
            ELSE Part("reasoning", Undef, Undef, NoDetails, Thinking(signature, content), p.by)
    ELSE IF targetProvider = "openai"
    THEN LET content == Or(ThinkingContent(p.thinking), "")
             signature == Or(ThinkingSignature(p.thinking), "translated-from-anthropic")
         IN Part("reasoning", Undef, content,
                 ArrayDetails(<<TextDetail(content, signature)>>), NoThinking, p.by)
    ELSE p

(* The two halves of translateReasoningPart.  Each branch reads the part in the   *)
(* other provider's format and writes it in the target's: decode is the reading *)
(* half (what the branch extracts from the part), encode the writing half (the  *)
(* object literal it returns).  A trace is the pair the branch carries across:  *)
(* the content and the signature it found.                                      *)
Trace(content, signature) == [content |-> content, signature |-> signature]
ThrownTrace == Trace(TypeError, Undef)

decodeSwapped(provider, p) ==
    IF provider = "openai"
    THEN LET content == IF p.details.tag = "undefined" \/ extractTextFromDetails(p.details) = ""
                        THEN Or(p.reasoning, "")
                        ELSE extractTextFromDetails(p.details)
         IN IF content = TypeError THEN ThrownTrace
            ELSE Trace(content, FirstSignature(p.details))
    ELSE Trace(Or(ThinkingContent(p.thinking), ""), ThinkingSignature(p.thinking))

decodeNoFallback(provider, p) ==
    IF provider = "openai"
    THEN LET content == IF Falsy(p.reasoning) /\ p.details.tag = "undefined"
                        THEN Undef
                        ELSE DetailContent(p)
         IN IF content = TypeError THEN ThrownTrace
            ELSE Trace(content, FirstSignature(p.details))
    ELSE Trace(ThinkingContent(p.thinking), ThinkingSignature(p.thinking))

\* provider "openai": part.reasoning || extractTextFromDetails(part.details) and
\* part.details?.[0]?.signature; provider "anthropic": part.thinking?.content || ""
\* and part.thinking?.signature
decode(provider, p) ==
    IF provider = "openai"
    THEN LET content == DetailContent(p)
         IN IF content = TypeError THEN ThrownTrace
            ELSE Trace(content, FirstSignature(p.details))
    ELSE Trace(Or(ThinkingContent(p.thinking), ""), ThinkingSignature(p.thinking))

encodeSwapped(provider, c, by) ==
    IF provider = "anthropic"
    THEN Part("reasoning", Undef, Undef, NoDetails,
              Thinking(c.content, Or(c.signature, "translated-from-openai")), by)
    ELSE Part("reasoning", Undef, Or(c.signature, "translated-from-anthropic"),
              ArrayDetails(<<TextDetail(Or(c.signature, "translated-from-anthropic"), c.content)>>),
              NoThinking, by)

\* provider "anthropic": {type, thinking: {signature: s || "translated-from-openai", content}};
\* provider "openai": {type, reasoning: content, details: [{type: "text", text: content,
\* signature: s || "translated-from-anthropic"}]}
encode(provider, c, by) ==
    IF provider = "anthropic"
    THEN Part("reasoning", Undef, Undef, NoDetails,
              Thinking(Or(c.signature, "translated-from-openai"), c.content), by)
    ELSE Part("reasoning", Undef, c.content,
              ArrayDetails(<<TextDetail(c.content, Or(c.signature, "translated-from-anthropic"))>>),
              NoThinking, by)

\* the provider whose format a branch of translateReasoningPart reads
Other(provider) == IF provider = "anthropic" THEN "openai" ELSE "anthropic"

translateMessage(message, targetProvider) ==
    LET sourceProvider == getOriginalProvider(message)
    IN IF sourceProvider = Undef \/ sourceProvider = targetProvider
       THEN message
       ELSE LET translatedParts ==
                    [i \in 1..Len(message.parts) |->
                        translateReasoningPart(message.parts[i], targetProvider)]
            IN IF \E i \in 1..Len(translatedParts) : translatedParts[i] = ThrownPart
               THEN ThrownMessage
               ELSE [message EXCEPT !.parts = translatedParts]

\* messages.map(msg => translateMessage(msg, provider))
translateMessages(msgs, targetProvider) ==
    LET translated == [i \in 1..Len(msgs) |-> translateMessage(msgs[i], targetProvider)]
    IN IF \E i \in 1..Len(translated) : translated[i] = ThrownMessage
       THEN <<ThrownMessage>>
       ELSE translated

\* the argument after a call of the mapping: map and the object spreads build new
\* arrays and objects, and no statement assigns to the argument
translateMessagesArgument(msgs, targetProvider) == msgs

-----------------------------------------------------------------------------
(* Chat.tsx: the Reasoning panel *)

ReasoningTextOnly(details) ==
    IF details.tag # "array" THEN TypeError
    ELSE IF \E i \in 1..Len(details.items) : details.items[i].tag = "null" THEN TypeError
    ELSE Join([i \in 1..Len(details.items) |->
                 IF details.items[i].type = "text"
                 THEN details.items[i].text
                 ELSE ""], "\n")

\* details.map(detail => detail.type === "text" ? detail.text : detail.data).join("\n")
ReasoningText(details) ==
    IF details.tag # "array" THEN TypeError
    ELSE IF \E i \in 1..Len(details.items) : details.items[i].tag = "null" THEN TypeError
    ELSE Join([i \in 1..Len(details.items) |->
                 IF details.items[i].type = "text"
                 THEN details.items[i].text
                 ELSE details.items[i].data], "\n")

(* Chat.tsx: the state of a Reasoning panel *)

\* the props and the state of a Reasoning panel: numParts is the length of the
\* message's parts, of which MessagePart makes the startExpanded prop.  `event` is
\* the last event on the panel, `before` whether it was displayed expanded before
\* that event, `clicks` the number of clicks on its header.
Panel(numParts, reasoningExpanded, userExpanded, event, before, clicks) ==
    [numParts |-> numParts, reasoningExpanded |-> reasoningExpanded,
     userExpanded |-> userExpanded, event |-> event, before |-> before, clicks |-> clicks]

\* no panel is mounted
NoPanel == Panel(0, FALSE, FALSE, "none", FALSE, 0)

\* MessagePart: startExpanded={numParts <= 2}
startExpanded(numParts) == numParts <= 2

\* const shouldBeExpanded = userExpanded ? reasoningExpanded : startExpanded
shouldBeExpanded(p) ==
    IF p.userExpanded THEN p.reasoningExpanded ELSE startExpanded(p.numParts)

-----------------------------------------------------------------------------
(* util.ts: useAutoScroll *)

\* el.clientHeight: the height of the viewport, which the model keeps fixed
clientHeight == 20

\* the scroll container and the refs of the hook.  `pending` is the cause of the
\* scroll event that is queued ("none" for no event); `event` is the last event,
\* `grew` and `moved` whether the last render grew scrollHeight and whether it
\* changed scrollTop, `cause` what caused the scroll event handled last, and `found`
\* whether the scroll event handled last found the viewport within 10px of the
\* bottom (TRUE while there was none).
Scroller(scrollHeight, scrollTop, shouldAutoScroll, lastScrollHeight) ==
    [scrollHeight |-> scrollHeight, scrollTop |-> scrollTop,
     shouldAutoScroll |-> shouldAutoScroll, lastScrollHeight |-> lastScrollHeight,
     pending |-> "none", event |-> "none", grew |-> FALSE, moved |-> FALSE,
     cause |-> "none", found |-> TRUE]

\* an empty container: useRef(true), useRef(0), no scroll event
NoScroller == Scroller(clientHeight, 0, TRUE, 0)

\* the older hook, still in util.ts: isAtBottom = ... < 5
isAtBottomWithin5(el) == el.scrollHeight - el.scrollTop - clientHeight < 5

\* handleScroll: const isAtBottom = el.scrollHeight - el.scrollTop - el.clientHeight <= 10
isAtBottom(el) == el.scrollHeight - el.scrollTop - clientHeight <= 10

\* the layout effect: the scrollTop it leaves
EffectScrollTop(el) ==
    IF el.scrollHeight > el.lastScrollHeight /\ el.shouldAutoScroll
    THEN el.scrollHeight - clientHeight
    ELSE el.scrollTop

-----------------------------------------------------------------------------
(* Chat.tsx: the parts of a message *)

\* JSON.stringify of a part: its defined properties, in order
Stringify(p) ==
    "{\"type\":\"" \o p.type \o "\""
        \o (IF p.text = Undef THEN "" ELSE ",\"text\":\"" \o p.text \o "\"")
        \o (IF p.reasoning = Undef THEN "" ELSE ",\"reasoning\":\"" \o p.reasoning \o "\"")
        \o "}"

\* what MessagePart returns: nothing, a text, or an element with its props
Element(kind, content, details, expanded) ==
    [kind |-> kind, content |-> content, details |-> details, startExpanded |-> expanded]
NoElement == Element("none", Undef, NoDetails, FALSE)

MessagePartKnownOnly(p, numParts) ==
    IF p.type = "step-start" THEN NoElement
    ELSE IF p.type = "text" THEN Element("text", p.text, NoDetails, FALSE)
    ELSE IF p.type = "tool-invocation" THEN Element("tool-invocation", p.text, NoDetails, FALSE)
    ELSE IF p.type = "reasoning" THEN Element("reasoning", Undef, p.details, startExpanded(numParts))
    ELSE NoElement

\* MessagePart: nothing for a step-start part; the text, a ToolCall or a Reasoning
\* element (started expanded when the message has at most two parts) for the three
\* known types; JSON.stringify(part) for any other type
MessagePart(p, numParts) ==
    IF p.type = "step-start" THEN NoElement
    ELSE IF p.type = "text" THEN Element("text", p.text, NoDetails, FALSE)
    ELSE IF p.type = "tool-invocation" THEN Element("tool-invocation", p.text, NoDetails, FALSE)
    ELSE IF p.type = "reasoning" THEN Element("reasoning", Undef, p.details, startExpanded(numParts))
    ELSE Element("unknown", Stringify(p), NoDetails, FALSE)

\* the model of the badge: the annotations that are not null merged by object
\* spread, a later model property overwriting an earlier one
RECURSIVE BadgeModel(_)
BadgeModel(annotations) ==
    IF Len(annotations) = 0 THEN Undef
    ELSE LET last == annotations[Len(annotations)]
         IN IF last.tag = "object" /\ last.model # Undef
            THEN last.model
            ELSE BadgeModel(SubSeq(annotations, 1, Len(annotations) - 1))

\* the Message component: the badge, and either the "Thinking..." placeholder (no
\* parts, or a single step-start part) or the children MessagePart returns, of
\* which React renders those that are not undefined
MessageComponent(message) ==
    LET placeholder ==
            \/ Len(message.parts) = 0
            \/ Len(message.parts) = 1 /\ message.parts[1].type = "step-start"
        children == [i \in 1..Len(message.parts) |->
                        MessagePart(message.parts[i], Len(message.parts))]
    IN [isUser |-> message.role = "user",
        model |-> BadgeModel(message.annotations),
        placeholder |-> placeholder,
        parts |-> IF placeholder THEN <<>>
                  ELSE SelectSeq(children, LAMBDA e : e # NoElement)]

-----------------------------------------------------------------------------
(* Inputs of the codec *)

Texts == {"", "a", "b"}

\* the elements a drawn details array is made of: well-formed text details (with and
\* without signature, one with an empty signature), a redacted detail, an object
\* without fields, and null
DetailElems ==
    {TextDetail(t, s) : t \in Texts, s \in {Undef, "sig"}}
        \cup {TextDetail("a", ""), RedactedDetail("r"), EmptyDetail, NullDetail}

RECURSIVE SeqsUpTo(_, _)
SeqsUpTo(S, n) ==
    IF n = 0 THEN {<<>>}
    ELSE LET shorter == SeqsUpTo(S, n - 1)
         IN shorter \cup {Append(s, x) : s \in {t \in shorter : Len(t) = n - 1}, x \in S}

DrawnDetails ==
    {NoDetails, NotArrayDetails} \cup {ArrayDetails(items) : items \in SeqsUpTo(DetailElems, MaxDetails)}

DrawnThinking ==
    {Thinking(s, c) : s \in {Undef, "", "sig"}, c \in {Undef, "", "c"}}

\* reasoning parts in the detail-array format (whole, partial and malformed) and
\* in the thinking format; DetailPart(Undef, NoDetails, by) has neither
ReasoningParts(by) ==
    {DetailPart(r, d, by) : r \in {Undef, "", "s"}, d \in DrawnDetails}
        \cup {ThinkingPart(t, by) : t \in DrawnThinking}

Traces == {Trace(c, s) : c \in {"", "a", "a\nb"}, s \in {Undef, "", "sig"}}

NoTrace == Trace(Undef, Undef)

\* no request in flight
NoRequest ==
    [active |-> FALSE, model |-> Undef, provider |-> Undef, reasoning |-> FALSE,
     providerOptions |-> {}, sent |-> <<>>, forwarded |-> <<>>,
     annotated |-> FALSE, streamed |-> 0]

\* no response was cut short
NoFailure == [tag |-> "none", message |-> Undef]
NoCut == [how |-> "none", index |-> 0, before |-> <<>>, thrown |-> NoFailure]

\* the values the variables of the other specifications rest at
IdleConversation ==
    /\ messages = <<>>
    /\ model = "openai:default"
    /\ status = "ready"
    /\ req = NoRequest
    /\ error = Undef
    /\ cut = NoCut
    /\ overlapped = FALSE
    /\ away = {}

IdleCodec ==
    /\ part = StepStart
    /\ src = Undef
    /\ canon = NoTrace

IdleTranslator == hist = <<>>

IdleFunctions ==
    /\ target = Undef
    /\ out = Undef
    /\ pc = "idle"

IdleViews ==
    /\ panel = NoPanel
    /\ scroller = NoScroller

-----------------------------------------------------------------------------
(* The codec applied to one reasoning part *)

CodecInit ==
    /\ IdleConversation
    /\ IdleViews
    /\ IdleTranslator
    /\ src \in Providers
    /\ part \in ReasoningParts(src)
    /\ target \in Providers
    /\ canon = NoTrace
    /\ out = Undef
    /\ pc = "start"

\* translateMessage calls translateReasoningPart(part, target) on the parts of a
\* message whose provider differs from the target
TranslatePart ==
    /\ pc = "start"
    /\ src # target
    /\ out' = translateReasoningPart(part, target)
    /\ pc' = "translated"
    /\ UNCHANGED <<messages, model, status, req, error, cut, overlapped, away, panel, scroller>>
    /\ UNCHANGED <<part, src, canon, hist, target>>

\* the reading half on the part, as the provider src wrote it
DecodePart ==
    /\ pc = "start"
    /\ out' = decode(src, part)
    /\ pc' = "decoded"
    /\ UNCHANGED <<messages, model, status, req, error, cut, overlapped, away, panel, scroller>>
    /\ UNCHANGED <<part, src, canon, hist, target>>

\* the writing half on a trace
EncodeTrace ==
    /\ pc = "start"
    /\ \E c \in Traces :
        /\ canon' = c
        /\ out' = encode(target, c, src)
    /\ pc' = "encoded"
    /\ UNCHANGED <<messages, model, status, req, error, cut, overlapped, away, panel, scroller>>
    /\ UNCHANGED <<part, src, hist, target>>

\* the reading half on what the writing half produced for the same provider
DecodeEncoded ==
    /\ pc = "encoded"
    /\ out' = decode(target, out)
    /\ pc' = "redecoded"
    /\ UNCHANGED <<messages, model, status, req, error, cut, overlapped, away, panel, scroller>>
    /\ UNCHANGED <<part, src, canon, hist, target>>

\* the expanded Reasoning panel renders part.details
RenderPart ==
    /\ pc = "start"
    /\ out' = ReasoningText(part.details)
    /\ pc' = "rendered"
    /\ UNCHANGED <<messages, model, status, req, error, cut, overlapped, away, panel, scroller>>
    /\ UNCHANGED <<part, src, canon, hist, target>>

CodecNext == TranslatePart \/ DecodePart \/ EncodeTrace \/ DecodeEncoded \/ RenderPart

SpecCodec == CodecInit /\ [][CodecNext]_vars

\* translateReasoningPart is its writing half applied to its reading half
HalvesMakeTranslate ==
    pc = "translated" =>
        out = (LET c == decode(Other(target), part)
               IN IF c = ThrownTrace THEN ThrownPart ELSE encode(target, c, part.by))

-----------------------------------------------------------------------------
(* Properties of the codec *)

\* a detail-array part as the provider emits it: a summary string and an array of
\* text details and redacted details
WellFormedDetail(d) ==
    /\ d.tag = "object"
    /\ \/ d.type = "text" /\ d.text # Undef /\ d.data = Undef
       \/ d.type = "redacted" /\ d.data # Undef /\ d.text = Undef

WellFormedDetailPart(p) ==
    /\ p.type = "reasoning"
    /\ p.reasoning # Undef
    /\ p.thinking.tag = "undefined"
    /\ p.details.tag = "array"
    /\ \A i \in 1..Len(p.details.items) : WellFormedDetail(p.details.items[i])

\* C6: a reasoning part translated for a provider carries every field that
\* provider's format requires.  For anthropic: thinking.signature is present and
\* non-empty, and it is the part's original signature (the first detail's) when that
\* is non-empty and the sentinel "translated-from-<source>" otherwise, and
\* thinking.content is a string.  For openai: reasoning is a string and details is
\* an array of one text detail whose text is a string.
C6_RequiredFields ==
    (pc = "translated" /\ out # ThrownPart) =>
        /\ out.type = "reasoning"
        /\ IF target = "anthropic"
           THEN /\ out.thinking.tag = "object"
                /\ out.thinking.signature # Undef
                /\ out.thinking.signature # ""
                /\ out.thinking.signature =
                        (IF Falsy(FirstSignature(part.details))
                         THEN "translated-from-" \o src
                         ELSE FirstSignature(part.details))
                /\ out.thinking.content \notin {Undef, TypeError}
           ELSE /\ out.reasoning \notin {Undef, TypeError}
                /\ out.details.tag = "array"
                /\ Len(out.details.items) = 1
                /\ out.details.items[1].tag = "object"
                /\ out.details.items[1].type = "text"
                /\ out.details.items[1].text \notin {Undef, TypeError}

\* a part whose first detail has an empty signature was translated for anthropic
\* and got the sentinel
C6_Witness ==
    /\ pc = "translated"
    /\ target = "anthropic"
    /\ part.details.tag = "array"
    /\ Len(part.details.items) > 0
    /\ part.details.items[1].signature = ""
    /\ out # ThrownPart
    /\ out.thinking.signature = "translated-from-openai"

\* C7: reading back what was written for the same provider gives the content that
\* was written: decode(P, encode(P, c)).content = c.content.
C7_RoundTrip ==
    pc = "redecoded" => out.content = canon.content

\* a two-line trace went through the detail-array format and came back
C7_Witness ==
    /\ pc = "redecoded"
    /\ target = "openai"
    /\ canon.content = "a\nb"
    /\ out.content = "a\nb"

\* C8: reading a reasoning part never throws, whatever is missing from it: neither
\* decode, nor translate, nor the render of the part.
C8_NeverThrows ==
    /\ pc = "decoded" => out # ThrownTrace
    /\ pc = "translated" => out # ThrownPart
    /\ pc = "rendered" => out # TypeError

\* the text of the text details of a sequence of details, in order
RECURSIVE TextsOfTextDetails(_)
TextsOfTextDetails(items) ==
    IF Len(items) = 0 THEN <<>>
    ELSE IF items[1].type = "text"
    THEN <<items[1].text>> \o TextsOfTextDetails(Tail(items))
    ELSE TextsOfTextDetails(Tail(items))

\* the text of each text detail and the data of each redacted detail, in order
RECURSIVE TextsAndData(_)
TextsAndData(items) ==
    IF Len(items) = 0 THEN <<>>
    ELSE <<IF items[1].type = "text" THEN items[1].text ELSE items[1].data>>
            \o TextsAndData(Tail(items))

\* s1 \n s2 \n ... \n sn
RECURSIVE Lines(_)
Lines(strs) ==
    IF Len(strs) = 0 THEN ""
    ELSE IF Len(strs) = 1 THEN strs[1]
    ELSE strs[1] \o "\n" \o Lines(Tail(strs))

C10_SignatureOnlyIfOriginal ==
    (pc = "translated" /\ target = "openai") =>
        LET content == Or(ThinkingContent(part.thinking), "")
        IN /\ out.reasoning = content
           /\ out.details =
                ArrayDetails(<<TextDetail(content, ThinkingSignature(part.thinking))>>)

\* C10 as amended: the detail always has a signature field: the source part's
\* signature when the part has a non-empty one, and "translated-from-anthropic"
\* otherwise.
C10_SignatureOrSentinel ==
    (pc = "translated" /\ target = "openai") =>
        LET content == Or(ThinkingContent(part.thinking), "")
            original == ThinkingSignature(part.thinking)
        IN /\ out.type = "reasoning"
           /\ out.thinking.tag = "undefined"
           /\ out.reasoning = content
           /\ out.details.tag = "array"
           /\ Len(out.details.items) = 1
           /\ out.details.items[1] =
                Detail("text", content, Undef,
                       IF original = Undef \/ original = ""
                       THEN "translated-from-anthropic"
                       ELSE original)

\* a thinking part without a signature was translated for openai
C10_Witness ==
    /\ pc = "translated"
    /\ target = "openai"
    /\ part.thinking.tag = "object"
    /\ part.thinking.signature = Undef
    /\ part.thinking.content = "c"
    /\ out.details.items[1].signature = "translated-from-anthropic"

\* C21: the content the view exposes for a reasoning part is
\* decode(message.provenance, part).content: the summary, else the joined segment
\* texts, of a detail-array part, and the thinking content of a signature-style
\* part.  The view is the Reasoning panel, and the provenance of the part is the
\* provider that produced it.
C21_ViewIsDecodedContent ==
    pc = "rendered" => out = decode(src, part).content

RECURSIVE Occurs(_, _)
Occurs(sub, s) ==
    IF Len(s) < Len(sub) THEN FALSE
    ELSE IF SubSeq(s, 1, Len(sub)) = sub THEN TRUE
    ELSE Occurs(sub, SubSeq(s, 2, Len(s)))

\* the data of the redacted details of a well-formed detail-array part
RedactedData(p) ==
    {p.details.items[i].data :
        i \in {j \in 1..Len(p.details.items) : p.details.items[j].type = "redacted"}}

\* C28 as stated: the opaque data of a redacted detail never becomes reasoning
\* text: it occurs neither in the content of the part translated for another
\* provider nor in the text the Reasoning panel renders.
C28_RedactedDataNeverText ==
    WellFormedDetailPart(part) =>
        \A data \in RedactedData(part) :
            /\ (pc = "translated" /\ target = "anthropic") =>
                    ~Occurs(data, out.thinking.content)
            /\ pc = "rendered" => ~Occurs(data, out)

\* C28 as amended: the opaque data of a redacted detail is used as the text of
\* that detail: the Reasoning panel renders the text of each text detail and the
\* data of each redacted detail, joined with newlines in their order, and that same
\* text is the content of the part translated for another provider when the part's
\* summary is empty (the summary itself, otherwise).
C28_RedactedDataIsDetailText ==
    WellFormedDetailPart(part) =>
        /\ pc = "rendered" => out = Lines(TextsAndData(part.details.items))
        /\ (pc = "translated" /\ target = "anthropic") =>
                out.thinking.content =
                    (IF part.reasoning # ""
                     THEN part.reasoning
                     ELSE Lines(TextsAndData(part.details.items)))

\* a part with a text detail and a redacted detail was rendered with the data as
\* its second line
C28_Witness ==
    /\ pc = "rendered"
    /\ part.details = ArrayDetails(<<TextDetail("a", Undef), RedactedDetail("r")>>)
    /\ out = "a\nr"

-----------------------------------------------------------------------------
(* Inputs of the translator *)

\* Scenario A: a detail-array part with an empty summary, produced by openai
ReasoningA == DetailPart("", ArrayDetails(<<TextDetail("a", Undef)>>), "openai")
\* Scenario B: a thinking part with a signature, produced by anthropic
ReasoningB == ThinkingPart(Thinking("sig", "c"), "anthropic")
\* Scenario D: a reasoning part with neither details nor summary
ReasoningD == DetailPart(Undef, NoDetails, "openai")

\* the part lists of the drawn messages
PartLists ==
    { <<TextPart("t")>>,
      <<StepStart>>,
      <<StepStart, ReasoningA, TextPart("t")>>,
      <<StepStart, ReasoningB, ToolPart("random"), StepStart, ReasoningB, TextPart("u")>>,
      <<FilePart("f"), ReasoningD, SourcePart("s")>>,
      <<ReasoningA, ToolPart("random"), ReasoningB>> }

\* the roles and annotation lists of the drawn messages
Headers ==
    { <<"user", <<>>>>,
      <<"system", <<Annotation("anthropic:smart")>>>>,
      <<"assistant", <<>>>>,
      <<"assistant", <<Annotation("openai:smart")>>>>,
      <<"assistant", <<NullAnnotation, Annotation(Undef), Annotation("anthropic:smart")>>>>,
      <<"assistant", <<Annotation("openai:smart"), Annotation("anthropic:default")>>>> }

DrawnMessages == {Message("m", h[1], ps, h[2]) : h \in Headers, ps \in PartLists}

-----------------------------------------------------------------------------
(* The translator applied to a history *)

TranslatorInit ==
    /\ IdleConversation
    /\ IdleViews
    /\ IdleCodec
    /\ hist \in SeqsUpTo(DrawnMessages, MaxHist)
    /\ target \in Providers
    /\ out = Undef
    /\ pc = "start"

\* route.ts: const filteredMessages = filterIncompatibleReasoning(messages, provider)
FilterHistory ==
    /\ pc = "start"
    /\ out' = filterIncompatibleReasoning(hist, target)
    /\ hist' = filterIncompatibleReasoningArgument(hist, target)
    /\ pc' = "filteredHistory"
    /\ UNCHANGED <<messages, model, status, req, error, cut, overlapped, away, panel, scroller>>
    /\ UNCHANGED <<part, src, canon, target>>

\* the schema mapping: const translatedMessages = messages.map(msg => translateMessage(msg, provider))
TranslateHistory ==
    /\ pc = "start"
    /\ out' = translateMessages(hist, target)
    /\ hist' = translateMessagesArgument(hist, target)
    /\ pc' = "translatedHistory"
    /\ UNCHANGED <<messages, model, status, req, error, cut, overlapped, away, panel, scroller>>
    /\ UNCHANGED <<part, src, canon, target>>

\* Chat.tsx: every message of the list is rendered by the Message component
RenderHistory ==
    /\ pc = "start"
    /\ out' = [i \in 1..Len(hist) |-> MessageComponent(hist[i])]
    /\ pc' = "renderedHistory"
    /\ UNCHANGED <<messages, model, status, req, error, cut, overlapped, away, panel, scroller>>
    /\ UNCHANGED <<part, src, canon, hist, target>>

TranslatorNext == FilterHistory \/ TranslateHistory \/ RenderHistory

SpecTranslate == TranslatorInit /\ [][TranslatorNext]_vars

-----------------------------------------------------------------------------
(* Properties of the translator *)

HistoryDone == pc \in {"filteredHistory", "translatedHistory"}

NonReasoning(parts) == SelectSeq(parts, LAMBDA p : p.type # "reasoning")
HasReasoning(parts) == \E j \in 1..Len(parts) : parts[j].type = "reasoning"

\* part j of message m as translate(m, target) is to return it
TranslatedInPlace(m, j) ==
    IF m.parts[j].type = "reasoning"
    THEN encode(target, decode(getOriginalProvider(m), m.parts[j]), m.parts[j].by)
    ELSE m.parts[j]

\* C2: an assistant message whose recorded provider differs from the target comes
\* back with as many parts as it had, every reasoning part replaced in place by
\* encode(target, decode(provenance, part)) and none removed.
C2_ReasoningTranslatedInPlace ==
    HistoryDone =>
        /\ Len(out) = Len(hist)
        /\ \A i \in 1..Len(hist) :
                (/\ hist[i].role = "assistant"
                 /\ getOriginalProvider(hist[i]) \in Providers \ {target}) =>
                    /\ Len(out[i].parts) = Len(hist[i].parts)
                    /\ \A j \in 1..Len(hist[i].parts) :
                            out[i].parts[j] = TranslatedInPlace(hist[i], j)

\* the schema mapping does what C2 states
MappingTranslatesInPlace ==
    pc = "translatedHistory" => C2_ReasoningTranslatedInPlace

\* C3: a message whose recorded provider is the target comes back equal by
\* content: same parts, same order, every reasoning part unchanged.
C3_SameProviderIdentity ==
    HistoryDone =>
        /\ Len(out) = Len(hist)
        /\ \A i \in 1..Len(hist) :
                getOriginalProvider(hist[i]) = target => out[i] = hist[i]

\* the deployed filter was applied to an assistant message of the target provider
\* that has reasoning parts
C3_Witness ==
    /\ pc = "filteredHistory"
    /\ \E i \in 1..Len(hist) :
        /\ hist[i].role = "assistant"
        /\ getOriginalProvider(hist[i]) = target
        /\ HasReasoning(hist[i].parts)
        /\ out[i] = hist[i]

\* C4: an assistant message without a model annotation comes back unchanged for
\* every target: its reasoning parts are neither translated nor removed.
C4_NoProvenancePassThrough ==
    HistoryDone =>
        /\ Len(out) = Len(hist)
        /\ \A i \in 1..Len(hist) :
                (hist[i].role = "assistant" /\ getOriginalProvider(hist[i]) = Undef) =>
                    out[i] = hist[i]

\* the schema mapping does what C4 states
MappingPassesThrough ==
    pc = "translatedHistory" => C4_NoProvenancePassThrough

\* C5: the history comes back with as many messages, in the same order, and in
\* every message the parts that are not reasoning parts are the same parts in the
\* same order.
C5_OrderPreserved ==
    HistoryDone =>
        /\ Len(out) = Len(hist)
        /\ \A i \in 1..Len(hist) :
                /\ out[i].id = hist[i].id
                /\ out[i].role = hist[i].role
                /\ out[i].annotations = hist[i].annotations
                /\ NonReasoning(out[i].parts) = NonReasoning(hist[i].parts)

\* a history of two messages of different providers was filtered; one of them lost
\* a reasoning part and kept its tool part
C5_Witness ==
    /\ pc = "filteredHistory"
    /\ Len(hist) = 2
    /\ getOriginalProvider(hist[1]) = "openai"
    /\ getOriginalProvider(hist[2]) = "anthropic"
    /\ \E i \in 1..2 :
        /\ Len(out[i].parts) < Len(hist[i].parts)
        /\ \E j \in 1..Len(out[i].parts) : out[i].parts[j].type = "tool-invocation"

\* C18: a message with role user or system is never translated: for every target
\* it comes back with all its parts unchanged, whatever parts and annotations it
\* carries.
C18_UserAndSystemUntouched ==
    HistoryDone =>
        \A i \in 1..Len(hist) :
            hist[i].role \in {"user", "system"} =>
                /\ i <= Len(out)
                /\ out[i] = hist[i]

NonStepParts(parts) == SelectSeq(parts, LAMBDA p : p.type # "step-start")

\* the kind of normalized part a part type is to give
NormalizedKind(type) ==
    IF type \in {"text", "reasoning", "tool-invocation"} THEN type ELSE "unknown"

-----------------------------------------------------------------------------
(* A model identifier put through the resolution *)

\* the identifiers a request body can carry: the configured ones, unknown
\* providers and model classes, names of inherited properties, empty and missing
\* segments, and a third segment
DrawnIdentifiers ==
    {p \o c : p \in {"openai", "anthropic", "mistral", "toString", "constructor", ""},
              c \in {":default", ":smart", ":fast", ":toString", ":", "", ":smart:x"}}

ResolveInit ==
    /\ messages = <<>>
    /\ model \in DrawnIdentifiers
    /\ status = "ready"
    /\ req = NoRequest
    /\ error = Undef
    /\ cut = NoCut
    /\ overlapped = FALSE
    /\ away = {}
    /\ IdleViews
    /\ IdleCodec
    /\ IdleTranslator
    /\ target = Undef
    /\ out = Undef
    /\ pc = "start"

\* POST with the identifier as the request's model: createDataStreamResponse, which
\* opens the stream, is reached when nothing before it threw
PostIdentifier ==
    /\ pc = "start"
    /\ out' = LET r == ResolveModel(model)
              IN [thrown |-> r.thrown, languageModel |-> r.languageModel,
                  streaming |-> ~r.thrown]
    /\ pc' = "posted"
    /\ UNCHANGED <<messages, model, status, req, error, cut, overlapped, away, panel, scroller>>
    /\ UNCHANGED <<part, src, canon, hist, target>>

\* the provider options POST builds for the identifier
BuildProviderOptions ==
    /\ pc = "start"
    /\ out' = RouteProviderOptions(model)
    /\ pc' = "options"
    /\ UNCHANGED <<messages, model, status, req, error, cut, overlapped, away, panel, scroller>>
    /\ UNCHANGED <<part, src, canon, hist, target>>

\* getProviderOptions(model)
GetProviderOptions ==
    /\ pc = "start"
    /\ out' = getProviderOptions(model)
    /\ pc' = "helperOptions"
    /\ UNCHANGED <<messages, model, status, req, error, cut, overlapped, away, panel, scroller>>
    /\ UNCHANGED <<part, src, canon, hist, target>>

ResolveNext == PostIdentifier \/ BuildProviderOptions \/ GetProviderOptions

SpecResolve == ResolveInit /\ [][ResolveNext]_vars

-----------------------------------------------------------------------------
(* Properties of the resolution *)

\* the identifier names an unknown provider or an unknown model class
Unknown(m) == SplitHead(m) \notin Providers \/ SplitSecond(m) \notin ModelClasses

ConfiguredLanguageModel(m) ==
    IF m = "openai:default" THEN LanguageModel("openai", "gpt-4o")
    ELSE IF m = "openai:smart" THEN LanguageModel("openai.responses", "o3")
    ELSE IF m = "anthropic:default" THEN LanguageModel("anthropic", "claude-3-5-sonnet-20240620")
    ELSE LanguageModel("anthropic", "claude-3-7-sonnet-20250219")

\* C16: for each of the four configured identifiers the resolution succeeds and
\* yields the configured model name and the constructor of the model's own entry
\* when it has one, else of its provider's entry.
C16_ConfiguredResolve ==
    (pc = "posted" /\ model \in Models) =>
        /\ ~out.thrown
        /\ out.languageModel = ConfiguredLanguageModel(model)
        /\ out.streaming

\* the reasoning options configured for a provider
ConfiguredReasoningOptions(provider) ==
    IF provider = "openai"
    THEN {<<"openai", [reasoningEffort |-> "high", reasoningSummary |-> "detailed",
                       parallelToolCalls |-> TRUE]>>}
    ELSE {<<"anthropic", [thinking |-> [type |-> "enabled", budgetTokens |-> 12000]]>>}

-----------------------------------------------------------------------------
(* A Reasoning panel while its message grows and its header is clicked *)

\* the panel is mounted when the reasoning part is first rendered, in a message of
\* numParts parts: useState(startExpanded), useState(false)
PanelInit ==
    /\ IdleConversation
    /\ IdleCodec
    /\ IdleTranslator
    /\ IdleFunctions
    /\ scroller = NoScroller
    /\ \E numParts \in 1..MaxMessageParts :
            panel = Panel(numParts, startExpanded(numParts), FALSE, "mount", FALSE, 0)

\* a part arrives in the message: the panel is rendered again with the new
\* startExpanded prop and keeps its state
PartArrives ==
    /\ panel.numParts < MaxMessageParts
    /\ panel' = [panel EXCEPT !.numParts = @ + 1,
                              !.event = "part",
                              !.before = shouldBeExpanded(panel)]
    /\ UNCHANGED <<messages, model, status, req, error, cut, overlapped, away, scroller>>
    /\ UNCHANGED <<part, src, canon, hist, target, out, pc>>

\* onClick of the header: setReasoningExpanded(!reasoningExpanded); setUserExpanded(true)
ClickHeader ==
    /\ panel.clicks < MaxClicks
    /\ panel' = [panel EXCEPT !.reasoningExpanded = ~panel.reasoningExpanded,
                              !.userExpanded = TRUE,
                              !.event = "click",
                              !.before = shouldBeExpanded(panel),
                              !.clicks = @ + 1]
    /\ UNCHANGED <<messages, model, status, req, error, cut, overlapped, away, scroller>>
    /\ UNCHANGED <<part, src, canon, hist, target, out, pc>>

PanelNext == PartArrives \/ ClickHeader

SpecPanel == PanelInit /\ [][PanelNext]_vars

\* C29: every click on the header of the Reasoning panel flips the displayed
\* state: the panel is displayed expanded after the click exactly if it was
\* displayed collapsed before, whatever numbers of parts the message had.
C29_ClickFlipsDisplayed ==
    panel.event = "click" => shouldBeExpanded(panel) # panel.before

-----------------------------------------------------------------------------
(* The scroll container while the list is rendered and scrolled *)

\* by how much a render grows the content
Growths == {0, 3, 12}

ScrollInit ==
    /\ IdleConversation
    /\ IdleCodec
    /\ IdleTranslator
    /\ IdleFunctions
    /\ panel = NoPanel
    /\ scroller = NoScroller

\* a render commits the content and runs the layout effect; the browser queues a
\* scroll event when the effect changed scrollTop
Render ==
    /\ \E growth \in Growths :
        /\ scroller.scrollHeight + growth <= MaxScrollHeight
        /\ LET el == [scroller EXCEPT !.scrollHeight = @ + growth]
               top == EffectScrollTop(el)
           IN scroller' = [el EXCEPT !.scrollTop = top,
                                    !.lastScrollHeight = el.scrollHeight,
                                    !.pending = IF top # el.scrollTop THEN "effect" ELSE @,
                                    !.event = "render",
                                    !.grew = growth > 0,
                                    !.moved = top # el.scrollTop,
                                    !.cause = "none"]
    /\ UNCHANGED <<messages, model, status, req, error, cut, overlapped, away, panel>>
    /\ UNCHANGED <<part, src, canon, hist, target, out, pc>>

\* the user scrolls the container; the browser queues a scroll event
UserScroll ==
    /\ \E top \in 0..(scroller.scrollHeight - clientHeight) :
        /\ top # scroller.scrollTop
        /\ scroller' = [scroller EXCEPT !.scrollTop = top,
                                        !.pending = "user",
                                        !.event = "user",
                                        !.grew = FALSE,
                                        !.moved = FALSE,
                                        !.cause = "none"]
    /\ UNCHANGED <<messages, model, status, req, error, cut, overlapped, away, panel>>
    /\ UNCHANGED <<part, src, canon, hist, target, out, pc>>

\* onScroll={handleScroll}: the queued scroll event is dispatched
HandleScroll ==
    /\ scroller.pending # "none"
    /\ scroller' = [scroller EXCEPT
            !.shouldAutoScroll = isAtBottom(scroller),
            !.pending = "none",
            !.event = "scroll",
            !.grew = FALSE,
            !.moved = FALSE,
            !.cause = scroller.pending,
            !.found = scroller.scrollTop + clientHeight + 10 >= scroller.scrollHeight]
    /\ UNCHANGED <<messages, model, status, req, error, cut, overlapped, away, panel>>
    /\ UNCHANGED <<part, src, canon, hist, target, out, pc>>

ScrollNext == Render \/ UserScroll \/ HandleScroll

SpecScroll == ScrollInit /\ [][ScrollNext]_vars

-----------------------------------------------------------------------------
(* The conversation: Chat.tsx (useChat, maxSteps 10) and route.ts (POST) *)

maxSteps == 10

\* POST up to the call of streamText, for a request whose language model was
\* constructed (ResolveModel is what constructs it): the provider and model class
\* are split from the request's model, the model's configuration is looked up, the
\* provider options are built and the request's messages are filtered for the
\* provider.  `sent` is the messages of the request body, `forwarded` the messages
\* option handed to streamText.
POST(msgs, m) ==
    LET provider == SplitHead(m)
        modelClass == SplitSecond(m)
        modelConfig == modelDefs[provider].models[modelClass]
    IN [active |-> TRUE, model |-> m, provider |-> provider,
        reasoning |-> modelConfig.reasoning,
        providerOptions |-> RouteProviderOptions(m).entries,
        sent |-> msgs,
        forwarded |-> filterIncompatibleReasoning(msgs, provider),
        annotated |-> FALSE, streamed |-> 0]

\* the values a failing stream throws: an Error with a message, a string, undefined,
\* null and an object that is no Error
Failure(tag, message) == [tag |-> tag, message |-> message]
Failures ==
    {Failure("Error", "boom"), Failure("Error", ""), Failure("string", "oops"),
     Failure("undefined", Undef), Failure("null", Undef), Failure("object", Undef)}

\* String(value)
String(value) ==
    IF value.tag = "string" THEN value.message
    ELSE IF value.tag = "undefined" THEN "undefined"
    ELSE IF value.tag = "null" THEN "null"
    ELSE "[object Object]"

\* onError: error instanceof Error ? error.message : String(error)
onError(e) == IF e.tag = "Error" THEN e.message ELSE String(e)

LastIsAssistant == Len(messages) > 0 /\ messages[Len(messages)].role = "assistant"

UserTurns == Cardinality({i \in 1..Len(messages) : messages[i].role = "user"})

\* the parts of the last step of a message: those after its last step-start
RECURSIVE LastStep(_)
LastStep(parts) ==
    IF Len(parts) = 0 THEN <<>>
    ELSE IF parts[Len(parts)].type = "step-start" THEN <<>>
    ELSE Append(LastStep(SubSeq(parts, 1, Len(parts) - 1)), parts[Len(parts)])

\* the parts streamed so far, over all assistant messages
RECURSIVE TotalParts(_)
TotalParts(msgs) ==
    IF Len(msgs) = 0 THEN 0
    ELSE (IF msgs[1].role = "assistant" THEN Len(msgs[1].parts) ELSE 0) + TotalParts(Tail(msgs))

StepCount(parts) == Cardinality({j \in 1..Len(parts) : parts[j].type = "step-start"})

\* the reasoning part a provider's reasoning model streams
StreamedReasoning(provider) ==
    IF provider = "openai"
    THEN DetailPart("a", ArrayDetails(<<TextDetail("a", Undef)>>), "openai")
    ELSE ThinkingPart(Thinking("sig", "c"), "anthropic")

\* the places <<i, j>> of the reasoning parts of a history, with their provider
ReasoningAt(msgs) ==
    UNION {{<<msgs[i].parts[j].by, i, j>> :
                j \in {k \in 1..Len(msgs[i].parts) : msgs[i].parts[k].type = "reasoning"}} :
           i \in 1..Len(msgs)}

\* `away` after POST(msgs, m): the reasoning parts still in the history that were
\* there when a provider other than their own was called
Away(msgs, m) ==
    {e \in away : e[2] <= Len(msgs)}
        \cup {e \in ReasoningAt(msgs) : e[1] # SplitHead(m)}

ConversationInit ==
    /\ IdleConversation
    /\ IdleViews
    /\ IdleCodec
    /\ IdleTranslator
    /\ IdleFunctions

\* <select onChange={(e) => setModel(e.target.value)}>: offered in every status
SetModel ==
    /\ \E m \in Models : m # model /\ model' = m
    /\ UNCHANGED <<messages, status, req, error, cut, overlapped, away>>
    /\ UNCHANGED <<panel, scroller, part, src, canon, hist, target, out, pc>>

\* the message the call in flight is building: the last message once a chunk of
\* the response has arrived, none (0) before
Building == IF req.annotated THEN Len(messages) ELSE 0

\* the submit button, rendered when status is "ready": useChat appends the user
\* message and posts the messages with body {model}
HandleSubmit ==
    /\ status = "ready"
    /\ UserTurns < MaxTurns
    /\ LET sent == Append(messages, Message("u", "user", <<TextPart("q")>>, <<>>))
       IN /\ messages' = sent
          /\ req' = POST(sent, model)
          /\ away' = Away(sent, model)
    /\ status' = "submitted"
    /\ error' = Undef
    /\ overlapped' = (overlapped \/ req.active)
    /\ UNCHANGED <<model, cut>>
    /\ UNCHANGED <<panel, scroller, part, src, canon, hist, target, out, pc>>

\* the reload button, rendered under every message that is not the user's, in
\* every status: useChat drops the last message when it is an assistant message
\* and posts the rest with body {model}, whether or not a call is in flight
Reload ==
    /\ \E i \in 1..Len(messages) : messages[i].role # "user"
    /\ LET rest == IF LastIsAssistant
                   THEN SubSeq(messages, 1, Len(messages) - 1)
                   ELSE messages
       IN /\ messages' = rest
          /\ req' = POST(rest, model)
          /\ away' = Away(rest, model)
          /\ cut' = IF cut.how = "failed" \/ cut.index > Len(rest) THEN NoCut ELSE cut
    /\ status' = "submitted"
    /\ error' = Undef
    /\ overlapped' = (overlapped \/ req.active)
    /\ UNCHANGED model
    /\ UNCHANGED <<panel, scroller, part, src, canon, hist, target, out, pc>>

ReceiveAnnotationSelected ==
    /\ req.active
    /\ ~req.annotated
    /\ messages' =
            IF LastIsAssistant
            THEN [messages EXCEPT ![Len(messages)].annotations =
                        Append(@, Annotation(model))]
            ELSE Append(messages, Message("a", "assistant", <<>>, <<Annotation(model)>>))
    /\ req' = [req EXCEPT !.annotated = TRUE]
    /\ status' = "streaming"
    /\ UNCHANGED <<model, error, cut, overlapped, away>>
    /\ UNCHANGED <<panel, scroller, part, src, canon, hist, target, out, pc>>

\* execute: dataStream.writeMessageAnnotation({model}) is the first chunk of the
\* response; the client adds it to the assistant message it is building, which is
\* the last message when that is an assistant message and a new one otherwise
ReceiveAnnotation ==
    /\ req.active
    /\ ~req.annotated
    /\ messages' =
            IF LastIsAssistant
            THEN [messages EXCEPT ![Len(messages)].annotations =
                        Append(@, Annotation(req.model))]
            ELSE Append(messages, Message("a", "assistant", <<>>, <<Annotation(req.model)>>))
    /\ req' = [req EXCEPT !.annotated = TRUE]
    /\ status' = "streaming"
    /\ UNCHANGED <<model, error, cut, overlapped, away>>
    /\ UNCHANGED <<panel, scroller, part, src, canon, hist, target, out, pc>>

ReceivePartBeforeAnnotation ==
    /\ req.active
    /\ LastIsAssistant
    /\ TotalParts(messages) < MaxParts
    /\ \E p \in {StepStart, StreamedReasoning(req.provider), TextPart("t"), ToolPart("random")} :
        /\ p.type = "step-start" <=> req.streamed = 0
        /\ p.type = "reasoning" => req.reasoning /\ req.streamed = 1
        /\ p.type \in {"text", "tool-invocation"} =>
                LastStep(messages[Len(messages)].parts) \in {<<>>, <<StreamedReasoning(req.provider)>>}
        /\ messages' = [messages EXCEPT ![Len(messages)].parts = Append(@, p)]
    /\ req' = [req EXCEPT !.streamed = @ + 1]
    /\ status' = "streaming"
    /\ UNCHANGED <<model, error, cut, overlapped, away>>
    /\ UNCHANGED <<panel, scroller, part, src, canon, hist, target, out, pc>>

\* result.mergeIntoDataStream: the step's parts arrive and are appended to the
\* assistant message: first the step-start, then reasoning (a reasoning model
\* only, sendReasoning: true), then a text or a tool invocation with its result
ReceivePart ==
    /\ req.active
    /\ req.annotated
    /\ TotalParts(messages) < MaxParts
    /\ \E p \in {StepStart, StreamedReasoning(req.provider), TextPart("t"), ToolPart("random")} :
        /\ p.type = "step-start" <=> req.streamed = 0
        /\ p.type = "reasoning" => req.reasoning /\ req.streamed = 1
        /\ p.type \in {"text", "tool-invocation"} =>
                LastStep(messages[Len(messages)].parts) \in {<<>>, <<StreamedReasoning(req.provider)>>}
        /\ messages' = [messages EXCEPT ![Len(messages)].parts = Append(@, p)]
    /\ req' = [req EXCEPT !.streamed = @ + 1]
    /\ status' = "streaming"
    /\ UNCHANGED <<model, error, cut, overlapped, away>>
    /\ UNCHANGED <<panel, scroller, part, src, canon, hist, target, out, pc>>

\* the response ends.  useChat (maxSteps: 10) posts the messages again, with the
\* model selected now, when the last step of the assistant message has tool
\* invocations, all with results, and fewer than maxSteps steps were taken
Finish ==
    /\ req.active
    /\ req.annotated
    /\ req.streamed > 0
    /\ LET last == messages[Len(messages)]
           resubmit ==
                /\ \E j \in 1..Len(LastStep(last.parts)) :
                        LastStep(last.parts)[j].type = "tool-invocation"
                /\ StepCount(last.parts) < maxSteps
       IN IF resubmit
          THEN /\ req' = POST(messages, model)
               /\ away' = Away(messages, model)
               /\ status' = "submitted"
          ELSE /\ req' = NoRequest
               /\ away' = away
               /\ status' = "ready"
    /\ UNCHANGED <<messages, model, error, cut, overlapped>>
    /\ UNCHANGED <<panel, scroller, part, src, canon, hist, target, out, pc>>

\* the stop button, rendered when status is "submitted" or "streaming": the request
\* is aborted and what was streamed stays in the message list
Stop ==
    /\ status \in {"submitted", "streaming"}
    /\ req' = NoRequest
    /\ status' = "ready"
    /\ cut' = [how |-> "stopped", index |-> Building, before |-> <<>>, thrown |-> NoFailure]
    /\ UNCHANGED <<messages, model, error, overlapped, away>>
    /\ UNCHANGED <<panel, scroller, part, src, canon, hist, target, out, pc>>

\* the stream fails: onError turns the error into the message sent to the client,
\* useChat keeps it as its error, its status becomes "error" and what was
\* streamed stays in the message list
StreamError ==
    /\ req.active
    /\ \E e \in Failures :
        /\ error' = onError(e)
        /\ cut' = [how |-> "failed", index |-> Building, before |-> req.sent, thrown |-> e]
    /\ req' = NoRequest
    /\ status' = "error"
    /\ UNCHANGED <<messages, model, overlapped, away>>
    /\ UNCHANGED <<panel, scroller, part, src, canon, hist, target, out, pc>>

Next ==
    \/ SetModel
    \/ HandleSubmit
    \/ Reload
    \/ ReceiveAnnotation
    \/ ReceivePart
    \/ Finish
    \/ Stop
    \/ StreamError

Spec == ConversationInit /\ [][Next]_vars

-----------------------------------------------------------------------------
(* One response: a request that POST has accepted, and the client reading it *)

\* the histories of the drawn requests: a first question, and a question after an
\* answer of each of the models
ResponseHistories ==
    LET question == Message("u", "user", <<TextPart("q")>>, <<>>)
    IN {<<question>>}
        \cup {<<question,
                Message("a", "assistant", <<StepStart, TextPart("t")>>, <<Annotation(m)>>),
                question>> : m \in Models}

\* useChat has posted the messages with body {model}
ResponseInit ==
    /\ IdleViews
    /\ IdleCodec
    /\ IdleTranslator
    /\ IdleFunctions
    /\ model \in Models
    /\ messages \in ResponseHistories
    /\ req = POST(messages, model)
    /\ status = "submitted"
    /\ error = Undef
    /\ cut = NoCut
    /\ overlapped = FALSE
    /\ away = {}

ResponseNext ==
    \/ SetModel
    \/ ReceiveAnnotation
    \/ ReceivePart
    \/ Finish
    \/ Stop
    \/ StreamError

SpecResponse == ResponseInit /\ [][ResponseNext]_vars

-----------------------------------------------------------------------------
(* Properties of a response *)

\* the model annotations among a message's annotations
ModelAnnotations(annotations) == SelectSeq(annotations, hasModelProperty)

\* the assistant message a request continues: the last message it sent when that
\* is an assistant message, and otherwise a message that is still to be made
Continued ==
    IF Len(req.sent) > 0 /\ req.sent[Len(req.sent)].role = "assistant"
    THEN req.sent[Len(req.sent)]
    ELSE Message("a", "assistant", <<>>, <<>>)

\* C24: the annotation of a response is {model: M}, M being the
\* "<provider>:<modelClass>" identifier of the request that produced it, and the
\* provider recovered from it (the text before the first ":") is the provider that
\* was called for the request.
C24_AnnotationIsRequestModel ==
    (req.active /\ req.annotated) =>
        LET annotations == messages[Len(messages)].annotations
            annotation == annotations[Len(annotations)]
        IN /\ annotation = [tag |-> "object", model |-> req.model]
           /\ \E provider \in Providers, modelClass \in ModelClasses :
                /\ annotation.model = provider \o ":" \o modelClass
                /\ provider = req.provider
           /\ getOriginalProvider(Message("a", "assistant", <<>>, <<annotation>>)) = req.provider
           /\ modelDefs[req.provider].models[SplitSecond(req.model)].reasoning = req.reasoning

\* the annotation of a response arrived after another model was selected
C24_Witness ==
    /\ req.active
    /\ req.annotated
    /\ req.model = "anthropic:smart"
    /\ model = "openai:default"
    /\ messages[Len(messages)].annotations = <<Annotation("anthropic:smart")>>

-----------------------------------------------------------------------------
(* Properties of the conversation *)

\* C11: while a call is in flight the assistant message being streamed carries no
\* model annotation: none is attached to it before the call has completed (the
\* annotations an earlier, completed call of the same message left are not
\* counted).
C11_NoProvenanceInFlight ==
    (req.active /\ LastIsAssistant) =>
        LET i == Len(messages)
        IN ModelAnnotations(messages[i].annotations) =
                ModelAnnotations(IF i <= Len(req.sent) THEN req.sent[i].annotations ELSE <<>>)

\* C12: an assistant message never carries two different model annotations.
C12_OneProvenance ==
    \A i \in 1..Len(messages) :
        LET annotations == ModelAnnotations(messages[i].annotations)
        IN \A j, k \in 1..Len(annotations) : annotations[j].model = annotations[k].model

\* C13: after a stop the partial assistant message is not part of the history: it
\* carries no model annotation and none of its parts is in the messages forwarded
\* to a later call.
C13_StoppedMessageDiscarded ==
    (cut.how = "stopped" /\ cut.index > 0) =>
        /\ ModelAnnotations(messages[cut.index].annotations) = <<>>
        /\ req.active =>
                \/ Len(req.forwarded) < cut.index
                \/ req.forwarded[cut.index].parts = <<>>

\* C14: at most one call is in flight: no user action the UI offers starts a call
\* while another is in flight.
C14_OneCallInFlight == ~overlapped

\* C19: when the stream fails, the client holds the failure as an error message
\* (the Error's message, else the stringified value) and the history holds
\* exactly the messages of before the failed call.
C19_FailureKeepsHistory ==
    status = "error" =>
        /\ error = (IF cut.thrown.tag = "Error" THEN cut.thrown.message
                    ELSE IF cut.thrown.tag = "string" THEN cut.thrown.message
                    ELSE IF cut.thrown.tag = "undefined" THEN "undefined"
                    ELSE IF cut.thrown.tag = "null" THEN "null"
                    ELSE "[object Object]")
        /\ messages = cut.before

\* C25: reasoning survives a switch away and back: a reasoning part that provider A
\* produced and that was in the history when another provider was called is among
\* the parts of its message handed to the model when A is called again.
C25_ReasoningSurvivesSwitch ==
    req.active =>
        \A e \in away :
            e[1] = req.provider =>
                \E k \in 1..Len(req.forwarded[e[2]].parts) :
                    req.forwarded[e[2]].parts[k] = req.sent[e[2]].parts[e[3]]

\* C27: the provider the server attributes to an assistant message (that of the
\* first annotation with a string model) is the provider of the model the badge of
\* the message shows (the model of the merged annotations).
C27_BadgeIsAttributedProvider ==
    \A i \in 1..Len(messages) :
        messages[i].role = "assistant" =>
            LET modelAnnotation == FindModelAnnotation(messages[i].annotations)
                shown == MessageComponent(messages[i]).model
            IN (IF hasModelProperty(modelAnnotation)
                THEN SplitHead(modelAnnotation.model)
                ELSE Undef)
                    = (IF shown = Undef THEN Undef ELSE SplitHead(shown))

\* C1: every reasoning part in the messages handed to the model call was generated
\* by the provider now being called; a reasoning part of another provider is never
\* forwarded.
C1_OnlyOwnReasoningForwarded ==
    req.active =>
        \A i \in 1..Len(req.forwarded) :
            \A j \in 1..Len(req.forwarded[i].parts) :
                req.forwarded[i].parts[j].type = "reasoning" =>
                    req.forwarded[i].parts[j].by = req.provider

====
